---- MODULE Spec2Model ----
(***************************************************************************)
(* fetch_unroll (src/src/lib.rs): Fetch::from(url).save().to(path) and     *)
(* Fetch::from(url).unroll().to(path).                                     *)
(*                                                                         *)
(* The destination is a small file system: a function from paths (relative *)
(* to the destination, the destination itself being the empty path) to a   *)
(* tag: "dir", "link" (an extracted entry that is neither a directory nor  *)
(* a regular file), or the content of a regular file ("old" for a file     *)
(* that was there before the call, "f<i>" for the content of the archive's *)
(* i-th entry, "part" for a file whose write was interrupted, "body" for   *)
(* the fetched body written by save).                                      *)
(*                                                                         *)
(* The tar, gzip and http libraries are not part of the repository; their  *)
(* calls are modelled at the call sites by their documented behaviour:     *)
(*   tar::Entry::unpack(dst)  writes one entry at dst, overwrites a file,  *)
(*       and requires the intermediate directories to exist;               *)
(*   tar::Archive::unpack(dst) creates dst when missing and unpacks every  *)
(*       entry in turn below dst, creating parent directories, links and   *)
(*       special entries included, stopping at the first error.            *)
(* Failures of the environment (an I/O error of one call) are inputs.      *)
(***************************************************************************)
EXTENDS Integers, Sequences, FiniteSets, TLC

----------------------------------------------------------------------------
(* Bounds of the model.                                                     *)

\* Longest archive, in entries, of the stripping specification.
MaxEntries == 3
\* Largest strip_components value tried.
MaxStrip == 2

----------------------------------------------------------------------------
(* Flags: a u8 bit set.                                                     *)

CREATE_DEST_PATH == 1
FORCE_OVERWRITE == 2
FIX_INVALID_DEST == 4
CLEANUP_ON_ERROR == 8
CLEANUP_DEST_DIR == 16
STRIP_WHEN_ALONE == 32

DEFAULT_SAVE_FLAGS == CREATE_DEST_PATH + FORCE_OVERWRITE + FIX_INVALID_DEST + CLEANUP_ON_ERROR

DEFAULT_UNROLL_FLAGS == CREATE_DEST_PATH + FIX_INVALID_DEST + CLEANUP_ON_ERROR + CLEANUP_DEST_DIR

\* flag!(flags[key]): (flags & key) == key, key a single bit.
flag(flags, key) == (flags \div key) % 2 = 1

\* usize::min
Min(a, b) == IF a <= b THEN a ELSE b

----------------------------------------------------------------------------
(* Paths and the file system below (and including) the destination.        *)

\* The destination path itself.
Root == << >>

IsPrefix(p, q) == Len(p) <= Len(q) /\ SubSeq(q, 1, Len(p)) = p

Parent(p) == SubSeq(p, 1, Len(p) - 1)

Prefixes(p) == {SubSeq(p, 1, k) : k \in 0..Len(p)}

\* No path at all: the destination does not exist.
NoFs == << >>

exists(fs, p) == p \in DOMAIN fs

is_dir(fs, p) == p \in DOMAIN fs /\ fs[p] = "dir"

is_file(fs, p) == p \in DOMAIN fs /\ fs[p] \notin {"dir", "link"}

Children(fs) == {p \in DOMAIN fs : Len(p) = 1}

remove_file(fs, p) == [q \in DOMAIN fs \ {p} |-> fs[q]]

remove_dir_all(fs, p) == [q \in {r \in DOMAIN fs : ~IsPrefix(p, r)} |-> fs[q]]

\* std::fs::create_dir_all: every missing prefix becomes a directory; fails,
\* changing nothing, when a prefix exists and is not a directory.
create_dir_all(fs, p) ==
    IF \E q \in Prefixes(p) : exists(fs, q) /\ ~is_dir(fs, q)
    THEN [ok |-> FALSE, fs |-> fs]
    ELSE [ok |-> TRUE,
          fs |-> [q \in DOMAIN fs \cup Prefixes(p) |->
                      IF q \in DOMAIN fs THEN fs[q] ELSE "dir"]]

\* remove_dir_entries as the code does it: every immediate child of the
\* destination is removed, a file by remove_file, anything else recursively.
RemoveDirEntriesNoop(fs) == fs

remove_dir_entries(fs) ==
    [q \in {r \in DOMAIN fs :
              \A c \in Children(fs) :
                 IF is_file(fs, c) THEN r # c ELSE ~IsPrefix(c, r)} |-> fs[q]]

----------------------------------------------------------------------------
(* Archive entries.                                                         *)

\* The content tag of the i-th entry's regular file.
FileTag(i) == <<"f1", "f2", "f3", "f4", "f5">>[i]

IsExtractable(kind) == kind \in {"dir", "file"}

\* count_common_components: the fold over the directory and regular-file
\* entries; common is "none" (None) or a path (Some(path)).
CommonPrefixLen(p, q) ==
    LET n == Min(Len(p), Len(q))
        same == {k \in 0..n : \A j \in 1..k : p[j] = q[j]}
    IN  CHOOSE k \in same : \A m \in same : m <= k

RECURSIVE CommonAncestor(_, _, _)
CommonAncestor(archive, i, common) ==
    IF i > Len(archive) THEN common
    ELSE LET e == archive[i] IN
         IF IsExtractable(e.kind)
         THEN IF common = <<"none">>
              THEN CommonAncestor(archive, i + 1, <<"some", e.path>>)
              ELSE CommonAncestor(archive, i + 1,
                      <<"some", SubSeq(common[2], 1, CommonPrefixLen(common[2], e.path))>>)
         ELSE CommonAncestor(archive, i + 1, common)

count_common_components(archive) ==
    LET c == CommonAncestor(archive, 1, <<"none">>)
    IN  IF c = <<"none">> THEN 0 ELSE Len(c[2])

----------------------------------------------------------------------------
(* Failures of the environment, chosen before the call: the stage whose    *)
(* first file-system call fails ("prepare": the preparation of the         *)
(* destination, "gzip": the decoder, "read": the reading of entry number   *)
(* entry from the archive, "entry": the write of entry number entry),      *)
(* whether an interrupted write leaves a partial file, and whether the     *)
(* removal done by the cleanup after an error fails.                       *)

NoFault == [stage |-> "none", entry |-> 0, partial |-> FALSE, rollback |-> FALSE]

FailsAt(fault, i) == fault.stage = "entry" /\ fault.entry = i

\* let entry = entry? (or entry.path()?) failing at entry i.
ReadFails(fault, i) == fault.stage = "read" /\ fault.entry = i

----------------------------------------------------------------------------
(* Writing one entry.                                                       *)

\* tar::Entry::unpack(dst) of a directory or a regular file: the parent of
\* dst must be a directory; an existing directory is accepted for a
\* directory entry, an existing file is overwritten by a file entry.
EntryUnpack(fs, dst, kind, tag) ==
    IF kind = "dir"
    THEN IF is_dir(fs, dst) THEN [ok |-> TRUE, fs |-> fs]
         ELSE IF exists(fs, dst) \/ ~is_dir(fs, Parent(dst))
              THEN [ok |-> FALSE, fs |-> fs]
              ELSE [ok |-> TRUE, fs |-> (dst :> "dir") @@ fs]
    ELSE IF ~is_dir(fs, Parent(dst)) \/ is_dir(fs, dst)
         THEN [ok |-> FALSE, fs |-> fs]
         ELSE [ok |-> TRUE, fs |-> (dst :> tag) @@ fs]

\* The same call interrupted by an I/O error: a regular file may be left
\* partially written.
EntryUnpackFails(fs, dst, kind, partial) ==
    [ok |-> FALSE,
     fs |-> IF kind = "file" /\ partial /\ is_dir(fs, Parent(dst)) /\ ~is_dir(fs, dst)
            THEN (dst :> "part") @@ fs
            ELSE fs]

\* entry_path.iter().skip(strip_components).collect() of a directory entry.
StripDir(path, strip_components) == SubSeq(path, strip_components + 1, Len(path))

\* The regular-file arm: strip_components.min(count - 1), then skip.
StripFileUnclamped(path, strip_components) == SubSeq(path, strip_components + 1, Len(path))

StripFile(path, strip_components) ==
    LET n == Min(strip_components, Len(path) - 1)
    IN  SubSeq(path, n + 1, Len(path))

\* One iteration of the loop over the entries: the entry is read, then
\* written according to its type; wrote says whether entry.unpack was
\* called, dst where.
LoopEntryUnpackOther(fs, e, i, strip_components, fault) ==
    LET dst == IF e.kind = "dir" THEN StripDir(e.path, strip_components)
               ELSE StripFile(e.path, strip_components)
        r == IF FailsAt(fault, i) THEN EntryUnpackFails(fs, dst, e.kind, fault.partial)
             ELSE IF e.kind = "other" THEN [ok |-> TRUE, fs |-> (dst :> "link") @@ fs]
             ELSE EntryUnpack(fs, dst, e.kind, FileTag(i))
    IN  IF ReadFails(fault, i)
        THEN [ok |-> FALSE, fs |-> fs, wrote |-> FALSE, dst |-> dst]
        ELSE IF e.kind = "dir" /\ Len(dst) < 1
        THEN [ok |-> TRUE, fs |-> fs, wrote |-> FALSE, dst |-> dst]
        ELSE [ok |-> r.ok, fs |-> r.fs, wrote |-> TRUE, dst |-> dst]

LoopEntry(fs, e, i, strip_components, fault) ==
    LET dst == IF e.kind = "dir" THEN StripDir(e.path, strip_components)
               ELSE StripFile(e.path, strip_components)
        r == IF FailsAt(fault, i) THEN EntryUnpackFails(fs, dst, e.kind, fault.partial)
             ELSE EntryUnpack(fs, dst, e.kind, FileTag(i))
    IN  IF ReadFails(fault, i)
        THEN [ok |-> FALSE, fs |-> fs, wrote |-> FALSE, dst |-> dst]
        ELSE IF e.kind = "other" \/ (e.kind = "dir" /\ Len(dst) < 1)
        THEN [ok |-> TRUE, fs |-> fs, wrote |-> FALSE, dst |-> dst]
        ELSE [ok |-> r.ok, fs |-> r.fs, wrote |-> TRUE, dst |-> dst]

\* The whole loop from entry i on, stopping at the first error.
RECURSIVE RunLoop(_, _, _, _, _)
RunLoop(fs, archive, i, strip_components, fault) ==
    IF i > Len(archive) THEN [ok |-> TRUE, fs |-> fs]
    ELSE LET r == LoopEntry(fs, archive[i], i, strip_components, fault)
         IN  IF r.ok THEN RunLoop(r.fs, archive, i + 1, strip_components, fault)
             ELSE [ok |-> FALSE, fs |-> r.fs]

\* tar::Entry::unpack_in(dst), the step of tar::Archive::unpack: the parent
\* directories are created, then the entry is written; an entry that is
\* neither a directory nor a regular file is written too (as a link).
UnpackIn(fs, e, i, fault) ==
    LET made == create_dir_all(fs, Parent(e.path))
        r == IF ~made.ok THEN [ok |-> FALSE, fs |-> fs]
             ELSE IF FailsAt(fault, i)
                  THEN EntryUnpackFails(made.fs, e.path, e.kind, fault.partial)
             ELSE IF e.kind = "other"
                  THEN IF is_dir(made.fs, e.path) THEN [ok |-> FALSE, fs |-> made.fs]
                       ELSE [ok |-> TRUE, fs |-> (e.path :> "link") @@ made.fs]
             ELSE EntryUnpack(made.fs, e.path, e.kind, FileTag(i))
    IN  IF ReadFails(fault, i) THEN [ok |-> FALSE, fs |-> fs, wrote |-> FALSE]
        ELSE [ok |-> r.ok, fs |-> r.fs, wrote |-> TRUE]

\* tar::Archive::unpack(destin) from entry i on: log is the sequence of the
\* entries whose write was attempted, failed the entry whose reading or
\* writing failed (or 0).
RECURSIVE RunUnpack(_, _, _, _, _)
RunUnpack(fs, archive, i, fault, log) ==
    IF i > Len(archive) THEN [ok |-> TRUE, fs |-> fs, log |-> log, failed |-> 0]
    ELSE LET r == UnpackIn(fs, archive[i], i, fault)
             log1 == IF r.wrote THEN Append(log, i) ELSE log
         IN  IF r.ok THEN RunUnpack(r.fs, archive, i + 1, fault, log1)
             ELSE [ok |-> FALSE, fs |-> r.fs, log |-> log1, failed |-> i]

\* archive.unpack(destin): the destination is created when it is missing.
ArchiveUnpack(fs, archive, fault) ==
    LET made == IF exists(fs, Root) THEN fs ELSE (Root :> "dir")
    IN  RunUnpack(made, archive, 1, fault, << >>)

----------------------------------------------------------------------------
(* unroll_archive_to and Unroll::to as functions of the call's inputs.      *)

\* The strip count the loop uses.
\* count_common_components(&mut archive)? failing: it is called only with
\* strip_when_alone, and reads every entry.
CountFails(flags, fault) == flag(flags, STRIP_WHEN_ALONE) /\ fault.stage = "read"

EffectiveStrip(archive, flags, strip_components) ==
    IF flag(flags, STRIP_WHEN_ALONE)
    THEN Min(strip_components, count_common_components(archive))
    ELSE strip_components

unroll_archive_to(fs, archive, flags, strip_components, fault) ==
    IF fault.stage = "gzip" THEN [ok |-> FALSE, fs |-> fs]
    ELSE IF strip_components < 1
         THEN LET r == ArchiveUnpack(fs, archive, fault) IN [ok |-> r.ok, fs |-> r.fs]
    ELSE IF CountFails(flags, fault) THEN [ok |-> FALSE, fs |-> fs]
    ELSE RunLoop(fs, archive, 1, EffectiveStrip(archive, flags, strip_components), fault)

\* The preparation of the destination in Unroll::to; dae is
\* dest_already_exists.
Prepare(fs, flags, fault) ==
    LET fails == fault.stage = "prepare" IN
    IF is_dir(fs, Root)
    THEN IF flag(flags, CLEANUP_DEST_DIR)
         THEN [ok |-> ~fails, dae |-> TRUE,
               fs |-> IF fails THEN fs ELSE remove_dir_entries(fs)]
         ELSE [ok |-> TRUE, dae |-> TRUE, fs |-> fs]
    ELSE IF is_file(fs, Root)
    THEN IF flag(flags, FIX_INVALID_DEST)
         THEN IF fails THEN [ok |-> FALSE, dae |-> FALSE, fs |-> fs]
              ELSE [ok |-> TRUE, dae |-> FALSE,
                    fs |-> IF flag(flags, CREATE_DEST_PATH)
                           THEN create_dir_all(remove_file(fs, Root), Root).fs
                           ELSE remove_file(fs, Root)]
         ELSE [ok |-> TRUE, dae |-> FALSE, fs |-> fs]
    ELSE IF flag(flags, CREATE_DEST_PATH)
         THEN [ok |-> ~fails, dae |-> FALSE,
               fs |-> IF fails THEN fs ELSE create_dir_all(fs, Root).fs]
         ELSE [ok |-> TRUE, dae |-> FALSE, fs |-> fs]

\* The or_else closure of Unroll::to: ran says whether a removal was
\* attempted, ok whether it succeeded.
RollbackKeepsDir(fs, flags, dae, fault) ==
    IF flag(flags, CLEANUP_ON_ERROR) /\ is_dir(fs, Root)
    THEN [ran |-> TRUE, ok |-> ~fault.rollback,
          fs |-> IF fault.rollback THEN fs ELSE remove_dir_entries(fs)]
    ELSE [ran |-> FALSE, ok |-> TRUE, fs |-> fs]

Rollback(fs, flags, dae, fault) ==
    IF flag(flags, CLEANUP_ON_ERROR) /\ is_dir(fs, Root)
    THEN [ran |-> TRUE, ok |-> ~fault.rollback,
          fs |-> IF fault.rollback THEN fs
                 ELSE IF dae THEN remove_dir_entries(fs) ELSE remove_dir_all(fs, Root)]
    ELSE [ran |-> FALSE, ok |-> TRUE, fs |-> fs]

\* Unroll::to on a fetched source: the destination it leaves and the result
\* it returns ("ok", or the error: "Io:prepare", "Io:extract", "Io:rollback").
UnrollTo(fs, archive, flags, strip_components, fault) ==
    LET p == Prepare(fs, flags, fault) IN
    IF ~p.ok THEN [fs |-> p.fs, result |-> "Io:prepare"]
    ELSE LET x == unroll_archive_to(p.fs, archive, flags, strip_components, fault) IN
         IF x.ok THEN [fs |-> x.fs, result |-> "ok"]
         ELSE LET r == Rollback(x.fs, flags, p.dae, fault)
              IN  [fs |-> r.fs, result |-> IF r.ok THEN "Io:extract" ELSE "Io:rollback"]

----------------------------------------------------------------------------
(* Save::to as a function of the call's inputs: the destination and its    *)
(* parent directory after the call, and the result returned. The fault     *)
(* stages "read" and "entry" are a failure of the copy of the body.        *)

SaveToAlwaysOverwrites(fs, parent, flags, src, fault) ==
    IF src # "ok" THEN [fs |-> fs, parent |-> parent, result |-> "Http"]
    ELSE [fs |-> (Root :> "body"), parent |-> TRUE, result |-> "ok"]

SaveTo(fs, parent, flags, src, fault) ==
    IF src # "ok" THEN [fs |-> fs, parent |-> parent, result |-> "Http"]
    ELSE IF is_file(fs, Root) /\ ~flag(flags, FORCE_OVERWRITE)
         THEN [fs |-> fs, parent |-> parent, result |-> "ok"]
    ELSE IF fault.stage = "prepare"
            /\ \/ is_file(fs, Root)
               \/ is_dir(fs, Root) /\ flag(flags, FIX_INVALID_DEST)
               \/ ~exists(fs, Root) /\ flag(flags, CREATE_DEST_PATH)
         THEN [fs |-> fs, parent |-> parent, result |-> "Io:prepare"]
    ELSE LET fs1 == IF is_file(fs, Root) THEN remove_file(fs, Root)
                    ELSE IF is_dir(fs, Root) /\ flag(flags, FIX_INVALID_DEST)
                         THEN remove_dir_all(fs, Root)
                         ELSE fs
             parent1 == parent \/ (~exists(fs, Root) /\ flag(flags, CREATE_DEST_PATH))
         IN  IF ~parent1 \/ is_dir(fs1, Root)
             THEN [fs |-> fs1, parent |-> parent1, result |-> "Io:create"]
             ELSE IF fault.stage \in {"read", "entry"}
                  THEN IF flag(flags, CLEANUP_ON_ERROR)
                       THEN IF fault.rollback
                            THEN [fs |-> (Root :> "part"), parent |-> parent1,
                                  result |-> "Io:rollback"]
                            ELSE [fs |-> NoFs, parent |-> parent1, result |-> "Io:extract"]
                       ELSE [fs |-> (Root :> "part"), parent |-> parent1,
                             result |-> "Io:extract"]
                  ELSE [fs |-> (Root :> "body"), parent |-> parent1, result |-> "ok"]

----------------------------------------------------------------------------
(* The state machine of one call (and, in SpecTwice, of a second one).      *)

VARIABLES
    op,                 \* "save" or "unroll": which writer the call uses
    response,           \* the status of the HTTP response: "200" or "404"
    source,             \* Fetch.source: "none" before the fetch, "ok", "Http"
    flags,              \* options.flags
    strip_components,   \* options.strip_components
    archive,            \* the fetched archive: a sequence of entries
    fault,              \* the failures of the environment
    fs,                 \* the destination
    parent,             \* whether the destination's parent directory exists
    fs0,                \* the destination before the first call
    parent0,            \* parent before the first call
    pc,                 \* the position of the call
    idx,                \* the loop's next entry (1-based)
    strip,              \* the loop's strip_components (after strip_when_alone)
    dae,                \* dest_already_exists
    xok,                \* unroll_archive_to's status: "none", "ok", "err"
    result,             \* what to() returned: "none" until it returns
    log,                \* the writes attempted: <<[i, dst]>>, in order
    failed,             \* the entry whose write failed (0: none)
    decoded,            \* whether GzipDecoder::new was called
    rolledBack,         \* whether the cleanup after an error removed anything
    calls,              \* 1 in the first call, 2 in the second
    result1             \* the first call's result, in the second

vars == <<op, response, source, flags, strip_components, archive, fault, fs, parent,
          fs0, parent0, pc, idx, strip, dae, xok, result, log, failed, decoded,
          rolledBack, calls, result1>>

inputs == <<op, response, flags, strip_components, archive, fault, fs0, parent0>>

Entry(path, kind) == [path |-> path, kind |-> kind]

\* The entries archives are built from.
EntryPool ==
    { Entry(<<"a">>, "dir"), Entry(<<"a", "b">>, "dir"), Entry(<<"b">>, "dir"),
      Entry(<<"a">>, "file"), Entry(<<"a", "a">>, "file"), Entry(<<"a", "b">>, "file"),
      Entry(<<"b">>, "file"),
      Entry(<<"a", "a">>, "other"), Entry(<<"b">>, "other") }

Archives(n) == UNION {[1..k -> EntryPool] : k \in 0..n}

\* The archives of the call-level specifications: empty; a package under one
\* root directory; one with two roots; a file whose directory has no entry
\* of its own; one with a link; one whose second entry lies below a file.
SmallArchives ==
    { << >>,
      <<Entry(<<"a">>, "dir"), Entry(<<"a", "b">>, "file")>>,
      <<Entry(<<"a">>, "dir"), Entry(<<"a", "b">>, "file"), Entry(<<"b">>, "file")>>,
      <<Entry(<<"a", "b">>, "file")>>,
      <<Entry(<<"b">>, "file"), Entry(<<"b">>, "other"), Entry(<<"a", "a">>, "file")>>,
      <<Entry(<<"a">>, "file"), Entry(<<"a", "b">>, "file")>> }

\* The destination before the call: absent (its parent there or not), a
\* regular file, an empty directory, a directory with a file and a
\* subdirectory, a directory with a file named as an archive's directory.
DestStates ==
    { [fs |-> NoFs, parent |-> TRUE],
      [fs |-> NoFs, parent |-> FALSE],
      [fs |-> (Root :> "old"), parent |-> TRUE],
      [fs |-> (Root :> "dir"), parent |-> TRUE],
      [fs |-> (Root :> "dir") @@ (<<"c">> :> "old") @@ (<<"b">> :> "dir")
                 @@ (<<"b", "c">> :> "old"), parent |-> TRUE],
      [fs |-> (Root :> "dir") @@ (<<"a">> :> "old"), parent |-> TRUE] }

UnrollFlagSets ==
    { c + f + e + d + a : c \in {0, CREATE_DEST_PATH}, f \in {0, FIX_INVALID_DEST},
                          e \in {0, CLEANUP_ON_ERROR}, d \in {0, CLEANUP_DEST_DIR},
                          a \in {0, STRIP_WHEN_ALONE} }

SaveFlagSets ==
    { c + o + f + e : c \in {0, CREATE_DEST_PATH}, o \in {0, FORCE_OVERWRITE},
                      f \in {0, FIX_INVALID_DEST}, e \in {0, CLEANUP_ON_ERROR} }

Faults(n) ==
    {NoFault}
    \cup [stage : {"prepare", "gzip"}, entry : {0}, partial : {FALSE}, rollback : BOOLEAN]
    \cup [stage : {"read"}, entry : 1..n, partial : {FALSE}, rollback : BOOLEAN]
    \cup [stage : {"entry"}, entry : 1..n, partial : BOOLEAN, rollback : BOOLEAN]

Fresh ==
    /\ source = "none" /\ pc = "init"
    /\ idx = 0 /\ strip = 0 /\ dae = FALSE /\ xok = "none" /\ result = "none"
    /\ log = << >> /\ failed = 0 /\ decoded = FALSE /\ rolledBack = FALSE
    /\ calls = 1 /\ result1 = "none"
    /\ fs = fs0 /\ parent = parent0

InitUnroll ==
    /\ op = "unroll"
    /\ archive \in SmallArchives
    /\ \/ response = "200" /\ fault \in Faults(Len(archive))
       \/ response = "404" /\ fault = NoFault
    /\ flags \in UnrollFlagSets
    /\ strip_components \in 0..MaxStrip
    /\ \E d \in DestStates : fs0 = d.fs /\ parent0 = d.parent
    /\ Fresh

InitSave ==
    /\ op = "save"
    /\ archive = << >>
    /\ response \in {"200", "404"}
    /\ fault \in Faults(1)
    /\ flags \in SaveFlagSets
    /\ strip_components = 0
    /\ \E d \in DestStates : fs0 = d.fs /\ parent0 = d.parent
    /\ Fresh

\* The stripping specification: every archive of up to MaxEntries entries,
\* default flags with and without create_dest_path and strip_when_alone.
InitStrip ==
    /\ op = "unroll"
    /\ archive \in Archives(MaxEntries)
    /\ response = "200" /\ fault = NoFault
    /\ flags \in { DEFAULT_UNROLL_FLAGS - c + a : c \in {0, CREATE_DEST_PATH},
                                                  a \in {0, STRIP_WHEN_ALONE} }
    /\ strip_components \in 0..MaxStrip
    /\ \E d \in {[fs |-> NoFs, parent |-> TRUE], [fs |-> (Root :> "dir"), parent |-> TRUE]} :
           fs0 = d.fs /\ parent0 = d.parent
    /\ Fresh

\* Two calls in succession in an environment without failures.
InitTwice ==
    /\ op = "unroll"
    /\ archive \in SmallArchives
    /\ response = "200" /\ fault = NoFault
    /\ flags \in UnrollFlagSets
    /\ strip_components \in 0..MaxStrip
    /\ \E d \in DestStates : fs0 = d.fs /\ parent0 = d.parent
    /\ Fresh

\* http_fetch: the response becomes a reader, or its error an Error::Http.
Fetch ==
    /\ pc = "init"
    /\ source' = IF response = "200" THEN "ok" ELSE "Http"
    /\ pc' = "fetched"
    /\ UNCHANGED <<inputs, fs, parent, idx, strip, dae, xok, result, log, failed,
                   decoded, rolledBack, calls, result1>>

\* Save::to.
SaveCall ==
    /\ pc = "fetched" /\ op = "save"
    /\ LET r == SaveTo(fs, parent, flags, source, fault)
       IN  fs' = r.fs /\ parent' = r.parent /\ result' = r.result
    /\ pc' = "done"
    /\ UNCHANGED <<inputs, source, idx, strip, dae, xok, log, failed, decoded,
                   rolledBack, calls, result1>>

\* Unroll::to up to the call of unroll_archive_to: source? and the
\* preparation of the destination.
UnrollStartPreparesFirst ==
    /\ pc = "fetched" /\ op = "unroll"
    /\ LET p == Prepare(fs, flags, fault) IN
         /\ fs' = p.fs /\ parent' = (parent \/ exists(p.fs, Root)) /\ dae' = p.dae
         /\ IF source # "ok" THEN result' = "Http" /\ pc' = "done"
            ELSE IF p.ok THEN result' = result /\ pc' = "extract"
            ELSE result' = "Io:prepare" /\ pc' = "done"
    /\ UNCHANGED <<inputs, source, idx, strip, xok, log, failed, decoded,
                   rolledBack, calls, result1>>

UnrollStart ==
    /\ pc = "fetched" /\ op = "unroll"
    /\ IF source # "ok"
       THEN /\ result' = "Http" /\ pc' = "done"
            /\ UNCHANGED <<fs, parent, dae>>
       ELSE LET p == Prepare(fs, flags, fault) IN
            /\ fs' = p.fs /\ parent' = (parent \/ exists(p.fs, Root)) /\ dae' = p.dae
            /\ IF p.ok THEN result' = result /\ pc' = "extract"
               ELSE result' = "Io:prepare" /\ pc' = "done"
    /\ UNCHANGED <<inputs, source, idx, strip, xok, log, failed, decoded,
                   rolledBack, calls, result1>>

\* GzipDecoder::new(source)?
Decode ==
    /\ pc = "extract"
    /\ decoded' = TRUE
    /\ IF fault.stage = "gzip" THEN xok' = "err" /\ pc' = "finish"
       ELSE xok' = xok /\ pc' = "decoded"
    /\ UNCHANGED <<inputs, source, fs, parent, idx, strip, dae, result, log, failed,
                   rolledBack, calls, result1>>

\* strip_components < 1: archive.unpack(destin)
UnpackWhole ==
    /\ pc = "decoded" /\ strip_components < 1
    /\ LET r == ArchiveUnpack(fs, archive, fault) IN
         /\ fs' = r.fs /\ parent' = TRUE
         /\ log' = [k \in 1..Len(r.log) |-> [i |-> r.log[k], dst |-> archive[r.log[k]].path]]
         /\ failed' = r.failed
         /\ xok' = IF r.ok THEN "ok" ELSE "err"
    /\ pc' = "finish"
    /\ UNCHANGED <<inputs, source, idx, strip, dae, result, decoded, rolledBack,
                   calls, result1>>

\* The else branch up to the loop: the decoded data is buffered and the
\* strip count is settled.
BeginStrip ==
    /\ pc = "decoded" /\ strip_components >= 1
    /\ IF CountFails(flags, fault)
       THEN /\ xok' = "err" /\ failed' = fault.entry /\ pc' = "finish"
            /\ UNCHANGED <<strip, idx>>
       ELSE /\ strip' = EffectiveStrip(archive, flags, strip_components)
            /\ idx' = 1
            /\ pc' = "loop"
            /\ UNCHANGED <<xok, failed>>
    /\ UNCHANGED <<inputs, source, fs, parent, dae, result, log, decoded,
                   rolledBack, calls, result1>>

\* One iteration of for entry in entries.
LoopStepGoesOn ==
    /\ pc = "loop" /\ idx <= Len(archive)
    /\ LET r == LoopEntry(fs, archive[idx], idx, strip, fault) IN
         /\ fs' = r.fs
         /\ log' = IF r.wrote THEN Append(log, [i |-> idx, dst |-> r.dst]) ELSE log
         /\ failed' = IF r.ok \/ failed # 0 THEN failed ELSE idx
         /\ idx' = idx + 1 /\ xok' = xok /\ pc' = pc
    /\ UNCHANGED <<inputs, source, parent, strip, dae, result, decoded, rolledBack,
                   calls, result1>>

LoopStep ==
    /\ pc = "loop" /\ idx <= Len(archive)
    /\ LET r == LoopEntry(fs, archive[idx], idx, strip, fault) IN
         /\ fs' = r.fs
         /\ log' = IF r.wrote THEN Append(log, [i |-> idx, dst |-> r.dst]) ELSE log
         /\ IF r.ok THEN idx' = idx + 1 /\ failed' = failed /\ xok' = xok /\ pc' = pc
            ELSE idx' = idx /\ failed' = idx /\ xok' = "err" /\ pc' = "finish"
    /\ UNCHANGED <<inputs, source, parent, strip, dae, result, decoded, rolledBack,
                   calls, result1>>

\* The loop's end: Ok(())
LoopEnd ==
    /\ pc = "loop" /\ idx > Len(archive)
    /\ xok' = "ok"
    /\ pc' = "finish"
    /\ UNCHANGED <<inputs, source, fs, parent, idx, strip, dae, result, log, failed,
                   decoded, rolledBack, calls, result1>>

\* unroll_archive_to(..).or_else(..): the cleanup after an error, and the
\* result of to().
Finish ==
    /\ pc = "finish"
    /\ IF xok = "ok"
       THEN result' = "ok" /\ UNCHANGED <<fs, rolledBack>>
       ELSE LET r == Rollback(fs, flags, dae, fault) IN
            /\ fs' = r.fs
            /\ rolledBack' = r.ran
            /\ result' = IF r.ok THEN "Io:extract" ELSE "Io:rollback"
    /\ pc' = "done"
    /\ UNCHANGED <<inputs, source, parent, idx, strip, dae, xok, log, failed, decoded,
                   calls, result1>>

\* The same call made a second time on the destination the first one left.
Again ==
    /\ pc = "done" /\ calls = 1
    /\ calls' = 2 /\ result1' = result
    /\ source' = "none" /\ pc' = "init"
    /\ idx' = 0 /\ strip' = 0 /\ dae' = FALSE /\ xok' = "none" /\ result' = "none"
    /\ log' = << >> /\ failed' = 0 /\ decoded' = FALSE /\ rolledBack' = FALSE
    /\ UNCHANGED <<inputs, fs, parent>>

NextUnroll ==
    \/ Fetch
    \/ UnrollStart
    \/ Decode
    \/ UnpackWhole
    \/ BeginStrip
    \/ LoopStep
    \/ LoopEnd
    \/ Finish

Init == InitUnroll \/ InitSave

Next == NextUnroll \/ SaveCall

NextTwice == NextUnroll \/ Again

Spec == Init /\ [][Next]_vars

SpecStrip == InitStrip /\ [][NextUnroll]_vars

SpecTwice == InitTwice /\ [][NextTwice]_vars

----------------------------------------------------------------------------
(* Claims.                                                                  *)

NoChildren(f) == DOMAIN f = {Root}

ExtractionFailed == op = "unroll" /\ pc = "done" /\ xok = "err"

C2_AllOrNothing ==
    (/\ op = "unroll" /\ pc = "done"
     /\ flag(flags, CLEANUP_ON_ERROR) /\ ~flag(flags, CLEANUP_DEST_DIR)
     /\ ~fault.rollback) =>
        result = "ok" \/ fs = fs0

\* C3: with strip_when_alone, strip_components = N leaves the destination
\* and returns the result that strip_components = min(N, D) leaves and
\* returns without strip_when_alone, D the depth of the common prefix of the
\* directory and regular-file entries.
C3_StripWhenAloneEquivalence ==
    (pc = "done" /\ flag(flags, STRIP_WHEN_ALONE) /\ flag(flags, CREATE_DEST_PATH)) =>
        LET r == UnrollTo(fs0, archive, flags - STRIP_WHEN_ALONE,
                          Min(strip_components, count_common_components(archive)), fault)
        IN  fs = r.fs /\ result = r.result

C5_TransportFailureTouchesNothing ==
    source = "Http" =>
        /\ fs = fs0 /\ parent = parent0 /\ ~decoded
        /\ pc = "done" => result = "Http"

\* C5's case: the call returned after a 404 on a destination directory with
\* children that cleanup_dest_dir would have removed.
C5_Witness ==
    /\ source = "Http" /\ pc = "done" /\ op = "unroll"
    /\ flag(flags, CLEANUP_DEST_DIR)
    /\ is_dir(fs0, Root) /\ ~NoChildren(fs0)

\* What a single extraction of the archive into a destination that does not
\* exist leaves.
SingleFresh == UnrollTo(NoFs, archive, flags, strip_components, NoFault)

\* C6 as stated: after the second of two calls with cleanup_dest_dir set the
\* destination is the one a single extraction into a fresh one leaves.
C6_IdempotenceAsStated ==
    (pc = "done" /\ calls = 2 /\ flag(flags, CLEANUP_DEST_DIR)) =>
        fs = SingleFresh.fs

\* C6 amended: the same when create_dest_path and fix_invalid_dest are set
\* too and the second call returns success; the single extraction into a
\* fresh destination then succeeds as well.
C6_Idempotence ==
    (/\ pc = "done" /\ calls = 2 /\ flag(flags, CLEANUP_DEST_DIR)
     /\ flag(flags, CREATE_DEST_PATH) /\ flag(flags, FIX_INVALID_DEST)
     /\ result = "ok") =>
        fs = SingleFresh.fs /\ SingleFresh.result = "ok"

\* C6's case: a second successful call on a directory that had children
\* before the first, leaving extracted entries.
C6_Witness ==
    /\ pc = "done" /\ calls = 2 /\ flag(flags, CLEANUP_DEST_DIR)
    /\ flag(flags, CREATE_DEST_PATH) /\ flag(flags, FIX_INVALID_DEST)
    /\ result1 = "ok" /\ result = "ok"
    /\ is_dir(fs0, Root) /\ ~NoChildren(fs0) /\ ~NoChildren(fs)

\* C7: without strip_when_alone, to() returns an error when a directory or
\* regular-file entry has fewer than strip_components + 1 components.
C7_StripErrors ==
    (/\ pc = "done" /\ ~flag(flags, STRIP_WHEN_ALONE) /\ strip_components >= 1
     /\ flag(flags, CREATE_DEST_PATH)
     /\ \E i \in 1..Len(archive) :
           IsExtractable(archive[i].kind) /\ Len(archive[i].path) < strip_components + 1) =>
        result # "ok"

IsSuffix(d, p) == Len(d) <= Len(p) /\ SubSeq(p, Len(p) - Len(d) + 1, Len(p)) = d

Logged(i) == \E k \in 1..Len(log) : log[k].i = i

OtherEntriesIgnored ==
    /\ \A i \in 1..Len(archive) : archive[i].kind = "other" => ~Logged(i) /\ failed # i
    /\ \A p \in DOMAIN fs : fs[p] # "link"
    /\ (pc = "done" /\ result = "ok") =>
          \A j \in 1..Len(archive) : archive[j].kind = "file" => Logged(j)

C10_AbortOnFirstFailure ==
    /\ \A k \in 1..(Len(log) - 1) : log[k].i < log[k + 1].i
    /\ failed # 0 => /\ \A k \in 1..Len(log) : log[k].i <= failed
                     /\ ReadFails(fault, failed) => \A k \in 1..Len(log) : log[k].i < failed
                     /\ xok = "err" /\ pc \in {"finish", "done"}
    /\ xok = "ok" => failed = 0
    /\ rolledBack => xok = "err" /\ flag(flags, CLEANUP_ON_ERROR) /\ pc = "done"
    /\ (pc = "done" /\ xok = "err") => result \in {"Io:extract", "Io:rollback"}

\* C10's case: the first of several entries fails in the loop and the
\* cleanup runs.
C10_Witness ==
    /\ pc = "done" /\ strip_components >= 1
    /\ failed = 1 /\ Len(archive) >= 2 /\ rolledBack
    /\ result = "Io:extract"

====
